---- MODULE Spec2Model ----
(***************************************************************************)
(* The OTA transfer state machine of BLEOtaUpdate (src/BLEOtaUpdate.cpp).  *)
(* One action per entry point: begin(), the three BLE callbacks that reach *)
(* handleOtaWrite / handleCommandWrite / onClientConnect /                 *)
(* onClientDisconnect, the public control calls stop(), restart(),         *)
(* abortUpdate(), and the device restart that ESP.restart() performs.      *)
(* The platform Update object (the Flash Writer) is outside the            *)
(* repository: every result it returns is a nondeterministic input.        *)
(***************************************************************************)
EXTENDS Integers, Naturals, Sequences, FiniteSets, TLC

VARIABLES
  started,         \* pServer != nullptr: begin() has run (lines 35, 60)
  otaInProgress,   \* bool otaInProgress
  otaFileSize,     \* uint32_t otaFileSize
  otaReceived,     \* uint32_t otaReceived
  otaStatus,       \* OtaStatus otaStatus
  clientConnected, \* bool clientConnected
  restarting,      \* control is at lines 275-276: delay(1000); ESP.restart()
  txOpen,          \* Flash Writer: a transaction was begun and not yet ended
  calls,           \* Flash Writer calls made by the last handler, in order
  effects,         \* callbacks, notifications and restart of the last handler, in order
  xfer,            \* Flash Writer calls counted since the last accepted OPEN
  script,          \* what the peer has sent of the sequence OPEN, size, data.., DONE
  pre,             \* the session as it was when the last handler was entered
  ev               \* the event the last handler served

vars == <<started, otaInProgress, otaFileSize, otaReceived, otaStatus,
          clientConnected, restarting, txOpen, calls, effects, xfer, script, pre, ev>>

----------------------------------------------------------------------------
\* Bounds of the model.

\* Update.write calls explored per transfer (otaReceived is counted up by them).
MaxWrites == 3
\* A declared image size whose four little-endian bytes are all non-zero.
BigSize == 16843009
\* A declared image size whose little-endian encoding holds zero bytes.
SmallSize == 3

----------------------------------------------------------------------------
\* Frames.  A frame is the byte string of one characteristic write: the bytes
\* of head followed by fill bytes of value 255.  handleOtaWrite puts no limit
\* on the length of a frame (maxPacketSize is stored and never consulted).

Frame(h, n) == [head |-> h, fill |-> n]

OTA_CMD_OPEN == <<79, 80, 69, 78>>
OTA_CMD_DONE == <<68, 79, 78, 69>>
OTA_CMD_ABORT == <<65, 66, 79, 82, 84>>

\* The peer's encoding of a size: 4 raw bytes, least significant first.
LE32(n) == << n % 256, (n \div 256) % 256, (n \div 65536) % 256, (n \div 16777216) % 256 >>

OpenFrame == Frame(OTA_CMD_OPEN, 0)
DoneFrame == Frame(OTA_CMD_DONE, 0)
AbortFrame == Frame(OTA_CMD_ABORT, 0)
EmptyFrame == Frame(<< >>, 0)
SizeFrame(n) == Frame(LE32(n), 0)

DeclaredSizes == {0, SmallSize, BigSize}
SizeFrames == { SizeFrame(n) : n \in DeclaredSizes }
DataFrames == { Frame(<<7>>, 0), Frame(<<7, 7>>, 0), Frame(<<7, 0, 7>>, 0),
                Frame(<< >>, BigSize - 2) }
OtaFrames == {OpenFrame, DoneFrame, AbortFrame, EmptyFrame} \cup SizeFrames \cup DataFrames
\* Frames of the command channel: text, text cut by a zero byte, no text.
CommandFrames == { Frame(<<65>>, 0), Frame(<<65, 0, 66>>, 0), Frame(<<0, 65>>, 0), EmptyFrame }

RawLength(f) == Len(f.head) + f.fill
At(f, i) == IF i <= Len(f.head) THEN f.head[i] ELSE 255

\* std::string value = pCharacteristic->getValue().c_str();
\* The std::string is built from a const char*, so it ends at the first zero byte.
NulAt(f) == { i \in 1..Len(f.head) : f.head[i] = 0 }
FirstNul(f) == CHOOSE i \in NulAt(f) : \A j \in NulAt(f) : i <= j
c_str(f) == IF NulAt(f) = {} THEN f ELSE Frame(SubSeq(f.head, 1, FirstNul(f) - 1), 0)

\* size_t length = value.length();
Length(value) == Len(value.head) + value.fill

\* memcmp(data, cmd, n) == 0
memcmp(value, cmd, n) == \A i \in 1..n : At(value, i) = cmd[i]

\* memcpy(&otaFileSize, data, 4) on the little-endian target.
memcpy(value) == At(value, 1) + 256 * At(value, 2) + 65536 * At(value, 3) + 16777216 * At(value, 4)

----------------------------------------------------------------------------
\* Flash Writer (Update) calls, as the handlers make them.

BeginCall(size, ok) == [op |-> "begin", arg |-> size, ret |-> IF ok THEN 1 ELSE 0]
WriteCall(len, written) == [op |-> "write", arg |-> len, ret |-> written]
\* Update.end(false): the result is discarded by every caller.
EndFalseCall == [op |-> "end", arg |-> 0, ret |-> 0]
EndTrueCall(ok) == [op |-> "end", arg |-> 1, ret |-> IF ok THEN 1 ELSE 0]

\* What Update.write(data, length) may return: nothing, a part, or all of it.
WriteResults(length) == {0, length} \cup (IF length > 1 THEN {length - 1} ELSE {})

----------------------------------------------------------------------------
\* What a handler does besides Flash Writer calls.  set: the callback pointer
\* (or the characteristic and the connection) was there; done: the callback
\* was invoked, the notification was sent.

Effect(kind, status, tag, f, n1, n2, n3, set, done) ==
  [kind |-> kind, status |-> status, tag |-> tag, frame |-> f,
   n1 |-> n1, n2 |-> n2, n3 |-> n3, set |-> set, done |-> done]

\* setOtaStatus: the status and message handed to statusCallback (lines 352-354).
StatusEffect(status, message, cb) == Effect("status", status, message, EmptyFrame, 0, 0, 0, cb, cb)
\* updateProgress: progressCallback(otaReceived, otaFileSize, percentage).
ProgressEffect(received, total, percentage, cb) ==
  Effect("progress", "", "", EmptyFrame, received, total, percentage, cb, cb)
\* notify() of the status characteristic with a text value.
NotifyEffect(text, received, total, sent) ==
  Effect("notify", "", text, EmptyFrame, received, total, 0, sent, sent)
\* commandCallback(command), with the text of the frame.
CommandEffect(value, cb, delivered) == Effect("command", "", "", value, 0, 0, 0, cb, delivered)
\* ESP.restart()
RestartEffect == Effect("restart", "", "", EmptyFrame, 0, 0, 0, TRUE, TRUE)

----------------------------------------------------------------------------
\* The session fields a handler reads and writes, as one record.

Cur == [otaInProgress |-> otaInProgress, otaFileSize |-> otaFileSize,
        otaReceived |-> otaReceived, otaStatus |-> otaStatus,
        calls |-> << >>, restarting |-> FALSE,
        clientConnected |-> clientConnected, started |-> started,
        statusCallback |-> FALSE, progressCallback |-> FALSE,
        commandCallback |-> FALSE, effects |-> << >>]

\* The callback pointers as a handler finds them.  The setters (lines 114-124)
\* only store a pointer and may be called between any two events, so on entry
\* each pointer is either some function or nullptr (as constructed).
StatusCallbacks == { [statusCallback |-> sc, progressCallback |-> FALSE, commandCallback |-> FALSE] :
                     sc \in BOOLEAN }
OtaCallbacks == { [statusCallback |-> sc, progressCallback |-> pc, commandCallback |-> FALSE] :
                  sc \in BOOLEAN, pc \in BOOLEAN }
CommandCallbacks == { [statusCallback |-> FALSE, progressCallback |-> FALSE, commandCallback |-> cc] :
                      cc \in BOOLEAN }
Entered(s, cb) == [s EXCEPT !.statusCallback = cb.statusCallback,
                            !.progressCallback = cb.progressCallback,
                            !.commandCallback = cb.commandCallback]

Do(s, e) == [s EXCEPT !.effects = Append(@, e)]

\* setOtaStatus, lines 350-358.
setOtaStatus(s, status, message) ==
  Do([s EXCEPT !.otaStatus = status], StatusEffect(status, message, s.statusCallback))

\* sendStatus, lines 207-212: pStatusCharacteristic is set by begin().
sendStatus(s, text) == Do(s, NotifyEffect(text, 0, 0, s.started /\ s.clientConnected))

\* A sendProgress that notifies without looking at clientConnected.
sendProgressUnguarded(s, received, total) ==
  Do(s, NotifyEffect("PROGRESS", received, total, s.started))
\* sendProgress, lines 214-220.
sendProgress(s, received, total) ==
  Do(s, NotifyEffect("PROGRESS", received, total, s.started /\ s.clientConnected))

\* 100 * x for a uint32_t x below 2^31, as two 16-bit-based limbs (hi * 65536 + lo):
\* the product does not fit the integers of the checker.
Mul100(x) ==
  LET p == (x % 65536) * 100
  IN [hi |-> (x \div 65536) * 100 + p \div 65536, lo |-> p % 65536]
\* The product as uint32_t arithmetic keeps it: modulo 2^32.
Wrap32(n) == [n EXCEPT !.hi = @ % 65536]
Bit(n, i) == IF i >= 16 THEN (n.hi \div 2^(i - 16)) % 2 ELSE (n.lo \div 2^i) % 2
\* Binary long division of the limbs by t.
RECURSIVE DivStep(_, _, _, _, _)
DivStep(n, t, i, rem, q) ==
  IF i < 0 THEN q
  ELSE IF rem >= t - rem - Bit(n, i)
       THEN DivStep(n, t, i - 1, rem - (t - rem - Bit(n, i)), 2 * q + 1)
       ELSE DivStep(n, t, i - 1, 2 * rem + Bit(n, i), 2 * q)
\* Below 2^31 the limbs are an integer of the checker and are divided directly.
Div(n, t) == IF n.hi < 32768 THEN (n.hi * 65536 + n.lo) \div t ELSE DivStep(n, t, 37, 0, 0)

\* getUpdatePercentage, lines 176-179: uint32_t product, uint8_t result.
getUpdatePercentage(s) ==
  IF s.otaFileSize = 0 THEN 0
  ELSE Div(Wrap32(Mul100(s.otaReceived)), s.otaFileSize) % 256

\* updateProgress, lines 339-348.
updateProgress(s) ==
  sendProgress(Do(s, ProgressEffect(s.otaReceived, s.otaFileSize, getUpdatePercentage(s),
                                    s.progressCallback)),
               s.otaReceived, s.otaFileSize)

\* A relay that hands over the command without the length test.
handleCommandWriteNoLengthTest(s, f) ==
  Do(s, CommandEffect(c_str(f), s.commandCallback, s.commandCallback))
\* handleCommandWrite, lines 309-315.
handleCommandWrite(s, f) ==
  LET value == c_str(f)
  IN Do(s, CommandEffect(value, s.commandCallback,
                         s.commandCallback /\ Len(value.head) + value.fill > 0))

\* onClientConnect, lines 317-324.
onClientConnectSession(s) == sendStatus([s EXCEPT !.clientConnected = TRUE], "Connected")

Call(s, c) == [s EXCEPT !.calls = Append(@, c)]

abortUpdate(s) ==
  IF s.otaInProgress
  THEN setOtaStatus([Call(s, EndFalseCall) EXCEPT !.otaInProgress = FALSE,
                                                  !.otaFileSize = 0,
                                                  !.otaReceived = 0],
                    "ABORTED", "Update aborted by user")
  ELSE s

\* lines 237-245
IsOpen(s, value) == ~s.otaInProgress /\ Length(value) = 4 /\ memcmp(value, OTA_CMD_OPEN, 4)
OpenBranch(s) ==
  setOtaStatus([s EXCEPT !.otaInProgress = TRUE, !.otaFileSize = 0, !.otaReceived = 0],
               "RECEIVING", "Update started")

\* lines 250-262
\* A size test without otaFileSize == 0.
IsSizeAnyTime(s, value) == Length(value) = 4
IsSize(s, value) == s.otaFileSize = 0 /\ Length(value) = 4
\* A begin-failure path that reports ERROR and leaves otaInProgress set.
SizeBranchStaysActive(s, value, beginOk) ==
  LET t == Call([s EXCEPT !.otaFileSize = memcpy(value)], BeginCall(memcpy(value), beginOk))
  IN IF ~beginOk
     THEN setOtaStatus(t, "ERROR", "Not enough space")
     ELSE setOtaStatus(t, "RECEIVING", "Receiving firmware")
SizeBranch(s, value, beginOk) ==
  LET t == Call([s EXCEPT !.otaFileSize = memcpy(value)], BeginCall(memcpy(value), beginOk))
  IN IF ~beginOk
     THEN [setOtaStatus(t, "ERROR", "Not enough space") EXCEPT !.otaInProgress = FALSE]
     ELSE setOtaStatus(t, "RECEIVING", "Receiving firmware")

\* lines 265-284
IsDone(value) == Length(value) = 4 /\ memcmp(value, OTA_CMD_DONE, 4)
\* A DONE check that only rejects an overrun (> written for !=).
SizeMismatchOverrunOnly(s) == s.otaReceived > s.otaFileSize
SizeMismatch(s) == s.otaReceived # s.otaFileSize
\* A DONE path that restarts the device whatever Update.end(true) returns.
DoneBranchAlwaysRestarts(s, endOk) ==
  IF SizeMismatch(s)
  THEN [Call(setOtaStatus(s, "ERROR", "Size mismatch"), EndFalseCall)
          EXCEPT !.otaInProgress = FALSE]
  ELSE IF endOk
       THEN [Do(setOtaStatus(Call(s, EndTrueCall(TRUE)), "COMPLETED",
                             "Update completed successfully"), RestartEffect)
               EXCEPT !.restarting = TRUE]
       ELSE [Do(setOtaStatus(Call(s, EndTrueCall(FALSE)), "ERROR",
                             "Update finalization failed"), RestartEffect)
               EXCEPT !.restarting = TRUE]
DoneBranch(s, endOk) ==
  IF SizeMismatch(s)
  THEN [Call(setOtaStatus(s, "ERROR", "Size mismatch"), EndFalseCall)
          EXCEPT !.otaInProgress = FALSE]
  ELSE IF endOk
       \* ESP.restart() does not return: line 282 is not reached.
       THEN [Do(setOtaStatus(Call(s, EndTrueCall(TRUE)), "COMPLETED",
                             "Update completed successfully"), RestartEffect)
               EXCEPT !.restarting = TRUE]
       ELSE [setOtaStatus(Call(s, EndTrueCall(FALSE)), "ERROR", "Update finalization failed")
               EXCEPT !.otaInProgress = FALSE]

\* lines 287-291
\* An ABORT check that compares 4 bytes of a 4-byte frame (the length of the
\* other two commands).
IsAbortFourBytes(value) == Length(value) = 4 /\ memcmp(value, OTA_CMD_ABORT, 4)
IsAbort(value) == Length(value) = 5 /\ memcmp(value, OTA_CMD_ABORT, 5)

\* lines 294-305.  Every value the model reaches is below 2^31, where the
\* uint32_t addition of line 298 cannot wrap.
IsData(s) == s.otaReceived < s.otaFileSize
\* A write-failure path that reports ERROR and leaves otaInProgress set.
DataBranchStaysActive(s, value, written) ==
  LET t == Call(s, WriteCall(Length(value), written))
  IN IF written > 0
     THEN updateProgress([t EXCEPT !.otaReceived = @ + written])
     ELSE setOtaStatus(t, "ERROR", "Write failed")
\* A data path that counts the frame length instead of what was written.
DataBranchCountsLength(s, value, written) ==
  LET t == Call(s, WriteCall(Length(value), written))
  IN IF written > 0
     THEN updateProgress([t EXCEPT !.otaReceived = @ + Length(value)])
     ELSE [setOtaStatus(t, "ERROR", "Write failed") EXCEPT !.otaInProgress = FALSE]
DataBranch(s, value, written) ==
  LET t == Call(s, WriteCall(Length(value), written))
  IN IF written > 0
     THEN updateProgress([t EXCEPT !.otaReceived = @ + written])
     ELSE [setOtaStatus(t, "ERROR", "Write failed") EXCEPT !.otaInProgress = FALSE]

\* handleOtaWrite, lines 229-307, given the results the Flash Writer returns.
handleOtaWrite(s, f, beginOk, written, endOk) ==
  LET value == c_str(f)
  IN IF Length(value) = 0 THEN s
     ELSE IF IsOpen(s, value) THEN OpenBranch(s)
     ELSE IF ~s.otaInProgress THEN s
     ELSE IF IsSize(s, value) THEN SizeBranch(s, value, beginOk)
     ELSE IF IsDone(value) THEN DoneBranch(s, endOk)
     ELSE IF IsAbort(value) THEN abortUpdate(s)
     ELSE IF IsData(s) THEN DataBranch(s, value, written)
     ELSE s

\* A disconnect that clears the flag itself and never calls abortUpdate.
onClientDisconnectNoAbort(s) == [s EXCEPT !.otaInProgress = FALSE]
\* onClientDisconnect, lines 328-331.
onClientDisconnectSession(s) == IF s.otaInProgress THEN abortUpdate(s) ELSE s

\* The frame reaches Update.begin (line 254).
ReachesBegin(s, f) ==
  LET value == c_str(f)
  IN Length(value) # 0 /\ s.otaInProgress /\ IsSize(s, value)

\* The frame reaches Update.end(true) (line 272).
ReachesEndTrue(s, f) ==
  LET value == c_str(f)
  IN /\ Length(value) # 0
     /\ s.otaInProgress
     /\ ~IsSize(s, value) /\ IsDone(value) /\ ~SizeMismatch(s)

\* The frame reaches Update.write (the branch of line 295).
ReachesWrite(s, f) ==
  LET value == c_str(f)
  IN /\ Length(value) # 0
     /\ s.otaInProgress
     /\ ~IsSize(s, value) /\ ~IsDone(value) /\ ~IsAbort(value)
     /\ IsData(s)

----------------------------------------------------------------------------
\* Observers.

\* The Flash Writer transaction after a sequence of calls: a successful begin
\* opens one, any end closes it, write leaves it as it is.
RECURSIVE TxAfter(_, _)
TxAfter(open, cs) ==
  IF cs = << >> THEN open
  ELSE TxAfter(IF Head(cs).op = "begin" THEN (open \/ Head(cs).ret = 1)
               ELSE IF Head(cs).op = "end" THEN FALSE
               ELSE open, Tail(cs))

Count(cs, op, arg) == Cardinality({ i \in 1..Len(cs) : cs[i].op = op /\ cs[i].arg = arg })
CountOp(cs, op) == Cardinality({ i \in 1..Len(cs) : cs[i].op = op })

NoXfer == [begins |-> 0, beginsOk |-> 0, beginArg |-> 0, writes |-> 0, endTrue |-> 0,
           endFalse |-> 0, fours |-> 0]

\* The counts of the current transfer; an accepted OPEN starts a new count.
\* fours: the raw 4-byte frames that followed that OPEN, counted up to 2.
XferAfter(x, opened, cs, f) ==
  IF opened THEN NoXfer
  ELSE [fours |-> IF RawLength(f) = 4 /\ x.fours < 2 THEN x.fours + 1 ELSE x.fours,
        begins |-> x.begins + CountOp(cs, "begin"),
        beginsOk |-> x.beginsOk +
                     Cardinality({ i \in 1..Len(cs) : cs[i].op = "begin" /\ cs[i].ret = 1 }),
        beginArg |-> IF CountOp(cs, "begin") > 0
                     THEN cs[CHOOSE i \in 1..Len(cs) : cs[i].op = "begin"].arg
                     ELSE x.beginArg,
        writes |-> x.writes + CountOp(cs, "write"),
        endTrue |-> x.endTrue + Count(cs, "end", 1),
        endFalse |-> x.endFalse + Count(cs, "end", 0)]

\* Every Flash Writer call of the sequence did all it was asked to do.
AllSucceeded(cs) ==
  \A i \in 1..Len(cs) :
     \/ cs[i].op = "begin" /\ cs[i].ret = 1
     \/ cs[i].op = "write" /\ cs[i].ret = cs[i].arg
     \/ cs[i].op = "end" /\ cs[i].ret = cs[i].arg

\* The size a peer declares with a raw 4-byte frame.
Declared(f) == CHOOSE n \in DeclaredSizes : f = SizeFrame(n)

NoScript == [phase |-> "none", declared |-> 0, sent |-> 0]

\* The peer's progress through OPEN, size frame, data frames, DONE, sent to a
\* session with no active transfer and served by a Flash Writer that never
\* fails; any other frame, or any failure, leaves the sequence.
ScriptAfter(sc, s, f, cs) ==
  IF ~s.otaInProgress /\ f = OpenFrame THEN [phase |-> "open", declared |-> 0, sent |-> 0]
  ELSE IF ~AllSucceeded(cs) THEN NoScript
  ELSE IF sc.phase = "open" /\ f \in SizeFrames
       THEN [phase |-> "sized", declared |-> Declared(f), sent |-> 0]
  ELSE IF sc.phase = "sized" /\ f \in DataFrames /\ sc.sent + RawLength(f) <= sc.declared
       THEN [sc EXCEPT !.sent = @ + RawLength(f)]
  ELSE IF sc.phase = "sized" /\ f = DoneFrame THEN [sc EXCEPT !.phase = "done"]
  ELSE NoScript

Snapshot == [otaInProgress |-> otaInProgress, otaFileSize |-> otaFileSize,
             otaReceived |-> otaReceived, otaStatus |-> otaStatus,
             clientConnected |-> clientConnected, txOpen |-> txOpen]

Event(kind, f) == [kind |-> kind, frame |-> f]

----------------------------------------------------------------------------
\* The state after construction (lines 11-40), before begin().

Init ==
  /\ started = FALSE
  /\ otaInProgress = FALSE
  /\ otaFileSize = 0
  /\ otaReceived = 0
  /\ otaStatus = "IDLE"
  /\ clientConnected = FALSE
  /\ restarting = FALSE
  /\ txOpen = FALSE
  /\ calls = << >>
  /\ effects = << >>
  /\ xfer = NoXfer
  /\ script = NoScript
  /\ pre = [otaInProgress |-> FALSE, otaFileSize |-> 0, otaReceived |-> 0,
            otaStatus |-> "IDLE", clientConnected |-> FALSE, txOpen |-> FALSE]
  /\ ev = Event("init", EmptyFrame)

\* A handler returns with the session r, having served the event e.
Return(r, e, opened) ==
  /\ otaInProgress' = r.otaInProgress
  /\ otaFileSize' = r.otaFileSize
  /\ otaReceived' = r.otaReceived
  /\ otaStatus' = r.otaStatus
  /\ restarting' = r.restarting
  /\ calls' = r.calls
  /\ effects' = r.effects
  /\ txOpen' = TxAfter(txOpen, r.calls)
  /\ xfer' = XferAfter(xfer, opened, r.calls, e.frame)
  /\ pre' = Snapshot
  /\ ev' = e

\* begin(), lines 42-76: creates the server and sets the status to IDLE.
Begin ==
  /\ ~started /\ ~restarting
  /\ started' = TRUE
  /\ \E cb \in StatusCallbacks :
       Return(setOtaStatus([Entered(Cur, cb) EXCEPT !.started = TRUE], "IDLE",
                           "BLE OTA Service Ready"),
              Event("begin", EmptyFrame), FALSE)
  /\ script' = NoScript
  /\ UNCHANGED clientConnected

\* OtaCharacteristicCallbacks::onWrite, lines 373-377.
OnOtaWrite ==
  /\ started /\ ~restarting
  /\ \E f \in OtaFrames :
       \E cb \in (IF ReachesWrite(Cur, f) THEN OtaCallbacks ELSE StatusCallbacks),
          beginOk \in (IF ReachesBegin(Cur, f) THEN BOOLEAN ELSE {TRUE}),
          endOk \in (IF ReachesEndTrue(Cur, f) THEN BOOLEAN ELSE {TRUE}),
          written \in (IF ReachesWrite(Cur, f) THEN WriteResults(Length(c_str(f))) ELSE {0}) :
         LET r == handleOtaWrite(Entered(Cur, cb), f, beginOk, written, endOk)
         IN /\ ReachesWrite(Cur, f) => xfer.writes < MaxWrites
            /\ Return(r, Event("ota", f), IsOpen(Cur, c_str(f)))
            /\ script' = ScriptAfter(script, Cur, f, r.calls)
  /\ UNCHANGED <<started, clientConnected>>

\* CommandCharacteristicCallbacks::onWrite, lines 379-383 and 309-315.
OnCommandWrite ==
  /\ started /\ ~restarting
  /\ \E f \in CommandFrames, cb \in CommandCallbacks :
       Return(handleCommandWrite(Entered(Cur, cb), f), Event("command", f), FALSE)
  /\ UNCHANGED <<started, clientConnected, script>>

\* ServerCallbacks::onConnect, lines 361-365 and 317-324.
onClientConnect ==
  /\ started /\ ~restarting
  /\ clientConnected' = TRUE
  /\ Return(onClientConnectSession(Cur), Event("connect", EmptyFrame), FALSE)
  /\ UNCHANGED <<started, script>>

\* ServerCallbacks::onDisconnect, lines 367-371 and 326-337.
onClientDisconnect ==
  /\ started /\ ~restarting
  /\ clientConnected' = FALSE
  /\ \E cb \in StatusCallbacks :
       Return(onClientDisconnectSession([Entered(Cur, cb) EXCEPT !.clientConnected = FALSE]),
              Event("disconnect", EmptyFrame), FALSE)
  /\ script' = NoScript
  /\ UNCHANGED started

\* The public abortUpdate(), lines 145-153, called by the application.
AbortUpdate ==
  /\ ~restarting
  /\ \E cb \in StatusCallbacks :
       Return(abortUpdate(Entered(Cur, cb)), Event("abortUpdate", EmptyFrame), FALSE)
  /\ script' = NoScript
  /\ UNCHANGED <<started, clientConnected>>

\* stop(), lines 131-136.
stop ==
  /\ ~restarting
  /\ \E cb \in StatusCallbacks :
       Return(setOtaStatus(Entered(Cur, cb), "IDLE", "Service stopped"),
              Event("stop", EmptyFrame), FALSE)
  /\ script' = NoScript
  /\ UNCHANGED <<started, clientConnected>>

\* restart(), lines 138-143.
restart ==
  /\ ~restarting
  /\ \E cb \in StatusCallbacks :
       Return(IF started THEN setOtaStatus(Entered(Cur, cb), "IDLE", "Service restarted")
              ELSE Cur,
              Event("restart", EmptyFrame), FALSE)
  /\ script' = NoScript
  /\ UNCHANGED <<started, clientConnected>>

\* The public sendStatus(), lines 207-212, called by the application.
SendStatus ==
  /\ ~restarting
  /\ Return(sendStatus(Cur, "app"), Event("sendStatus", EmptyFrame), FALSE)
  /\ UNCHANGED <<started, clientConnected, script>>

\* The public sendProgress(), lines 214-220, called by the application.
SendProgress ==
  /\ ~restarting
  /\ Return(sendProgress(Cur, otaReceived, otaFileSize), Event("sendProgress", EmptyFrame), FALSE)
  /\ UNCHANGED <<started, clientConnected, script>>

\* ESP.restart(), line 276: the device reboots into the constructed state.
EspRestart ==
  /\ restarting
  /\ started' = FALSE
  /\ otaInProgress' = FALSE
  /\ otaFileSize' = 0
  /\ otaReceived' = 0
  /\ otaStatus' = "IDLE"
  /\ clientConnected' = FALSE
  /\ restarting' = FALSE
  /\ txOpen' = FALSE
  /\ calls' = << >>
  /\ effects' = << >>
  /\ xfer' = NoXfer
  /\ script' = NoScript
  /\ pre' = [otaInProgress |-> FALSE, otaFileSize |-> 0, otaReceived |-> 0,
             otaStatus |-> "IDLE", clientConnected |-> FALSE, txOpen |-> FALSE]
  /\ ev' = Event("init", EmptyFrame)

Next ==
  \/ Begin
  \/ OnOtaWrite
  \/ OnCommandWrite
  \/ onClientConnect
  \/ onClientDisconnect
  \/ AbortUpdate
  \/ stop
  \/ restart
  \/ SendStatus
  \/ SendProgress
  \/ EspRestart

Spec == Init /\ [][Next]_vars

TypeOK ==
  /\ started \in BOOLEAN /\ otaInProgress \in BOOLEAN
  /\ otaFileSize \in Nat /\ otaReceived \in Nat
  /\ otaStatus \in {"IDLE", "RECEIVING", "COMPLETED", "ERROR", "ABORTED"}
  /\ clientConnected \in BOOLEAN /\ restarting \in BOOLEAN /\ txOpen \in BOOLEAN
  /\ Len(calls) <= 1

----------------------------------------------------------------------------
\* Shorthands for the claims.

OtaFrameServed == ev.kind = "ota"
Served(f) == ev.kind = "ota" /\ ev.frame = f
SessionUnchanged ==
  /\ otaStatus = pre.otaStatus
  /\ otaInProgress = pre.otaInProgress
  /\ otaFileSize = pre.otaFileSize
  /\ otaReceived = pre.otaReceived
Terminal(status) == status \in {"COMPLETED", "ERROR", "ABORTED"}

\* C1: after OPEN (no transfer active) and a size frame declaring total_size,
\* data frames whose lengths sum to total_size and then DONE, served by a
\* Flash Writer that never fails, leave the session Completed with
\* received_bytes = total_size, after exactly one begin(total_size), exactly
\* one end(true) and no end(false).
C1_Claim ==
  (script.phase = "done" /\ script.sent = script.declared) =>
     /\ otaStatus = "COMPLETED"
     /\ otaReceived = script.declared
     /\ xfer.begins = 1 /\ xfer.beginArg = script.declared
     /\ xfer.endTrue = 1 /\ xfer.endFalse = 0

\* C2: a DONE frame served while a transfer is active and received_bytes #
\* total_size leaves the session Failed (status ERROR, transfer inactive) with
\* end(false) the only Flash Writer call and received_bytes as it was; and
\* end(true) is only ever called from a state with received_bytes = total_size.
C2_Theorem ==
  /\ (Served(DoneFrame) /\ pre.otaInProgress /\ pre.otaReceived # pre.otaFileSize) =>
        /\ otaStatus = "ERROR" /\ ~otaInProgress
        /\ calls = <<EndFalseCall>>
        /\ otaReceived = pre.otaReceived
  /\ \A i \in 1..Len(calls) :
        (calls[i].op = "end" /\ calls[i].arg = 1) => pre.otaReceived = pre.otaFileSize

C2_Witness ==
  /\ Served(DoneFrame) /\ pre.otaInProgress
  /\ pre.otaReceived > 0 /\ pre.otaReceived < pre.otaFileSize
  /\ calls = <<EndFalseCall>>

\* C3: begin is never called while a transaction begun earlier is still open.
C3_Claim ==
  \A i \in 1..Len(calls) :
     calls[i].op = "begin" => ~TxAfter(pre.txOpen, SubSeq(calls, 1, i - 1))

\* C4: whenever total_size > 0, received_bytes <= total_size.
C4_Claim == otaFileSize > 0 => otaReceived <= otaFileSize

\* C5: an ABORT frame served while a transfer is active makes exactly one
\* Flash Writer call, end(false), and leaves the session Aborted and inactive;
\* served while no transfer is active it makes no Flash Writer call and leaves
\* the session as it was.
C5_Theorem ==
  Served(AbortFrame) =>
     IF pre.otaInProgress
     THEN calls = <<EndFalseCall>> /\ otaStatus = "ABORTED" /\ ~otaInProgress
     ELSE calls = << >> /\ SessionUnchanged /\ txOpen = pre.txOpen

C5_Witness ==
  /\ Served(AbortFrame) /\ pre.otaInProgress /\ pre.otaReceived > 0
  /\ otaStatus = "ABORTED"

C5_WitnessIdle == Served(AbortFrame) /\ ~pre.otaInProgress /\ Terminal(pre.otaStatus)

\* C6: a disconnect and an ABORT frame, served while a transfer is active,
\* reach the same transfer state (Aborted, inactive, total_size and
\* received_bytes both cleared) with end(false) the only Flash Writer call;
\* served in that reached state, either changes nothing of the transfer.
AbortLike == ev.kind = "disconnect" \/ Served(AbortFrame)
C6_Theorem ==
  AbortLike =>
     /\ pre.otaInProgress =>
           /\ otaStatus = "ABORTED" /\ ~otaInProgress
           /\ otaFileSize = 0 /\ otaReceived = 0
           /\ calls = <<EndFalseCall>>
     /\ (pre.otaStatus = "ABORTED" /\ ~pre.otaInProgress) =>
           SessionUnchanged /\ calls = << >> /\ txOpen = pre.txOpen

C6_Witness ==
  /\ ev.kind = "disconnect" /\ pre.otaInProgress /\ pre.otaStatus = "RECEIVING"
  /\ pre.otaReceived > 0
  /\ otaStatus = "ABORTED"

C6_WitnessAgain == ev.kind = "disconnect" /\ pre.otaStatus = "ABORTED" /\ ~pre.otaInProgress

\* C7: when the disconnect handler has returned, no Flash Writer transaction
\* is open.
C7_Claim == ev.kind = "disconnect" => ~txOpen

\* C8: while a transfer is active and total_size = 0 no frame reaches Flash
\* Writer write; and the first 4-byte frame after the OPEN, whatever its
\* bytes, sets total_size to the value it encodes and calls begin with it.
C8_Claim ==
  /\ (OtaFrameServed /\ pre.otaInProgress /\ pre.otaFileSize = 0) =>
        CountOp(calls, "write") = 0
  /\ (OtaFrameServed /\ pre.otaInProgress /\ RawLength(ev.frame) = 4 /\ xfer.fours = 1) =>
        /\ otaFileSize = memcpy(ev.frame)
        /\ CountOp(calls, "begin") = 1
        /\ calls[1].arg = memcpy(ev.frame)

\* C9: an OPEN frame served while a transfer is active does not change
\* total_size or received_bytes and reaches neither begin nor write.
C9_Claim ==
  (Served(OpenFrame) /\ pre.otaInProgress) =>
     /\ otaFileSize = pre.otaFileSize
     /\ otaReceived = pre.otaReceived
     /\ CountOp(calls, "begin") = 0
     /\ CountOp(calls, "write") = 0

----------------------------------------------------------------------------
\* Shorthands for the claims on callbacks and notifications.

Effects(kind) == { i \in 1..Len(effects) : effects[i].kind = kind }
Sent == { i \in Effects("notify") : effects[i].done }
\* The percentage of section 4.3: floor(received * 100 / total), 0 for total = 0.
Percentage(received, total) == IF total = 0 THEN 0 ELSE Div(Mul100(received), total)

\* C11: whenever a handler sets the status to ERROR, ABORTED or COMPLETED
\* while the peer is connected, it also sends a notification carrying the
\* message of that status.
C11_Claim ==
  \A i \in Effects("status") :
     (Terminal(effects[i].status) /\ clientConnected) =>
        \E j \in Sent : effects[j].tag = effects[i].tag

\* C12: a notification is sent exactly when the peer is connected (and the
\* status characteristic exists), otherwise it is dropped; and a handler sends
\* nothing but its own notification: the connect handler only "Connected",
\* never a notification dropped earlier.
C12_Theorem ==
  /\ \A i \in Effects("notify") : effects[i].done <=> (started /\ clientConnected)
  /\ Cardinality(Effects("notify")) <= 1
  /\ \A i \in Effects("notify") :
        /\ effects[i].tag = "Connected" <=> ev.kind = "connect"
        /\ effects[i].tag = "app" <=> ev.kind = "sendStatus"
        /\ effects[i].tag = "PROGRESS" <=> ev.kind \in {"ota", "sendProgress"}
        /\ effects[i].tag = "PROGRESS" =>
              effects[i].n1 = otaReceived /\ effects[i].n2 = otaFileSize

C12_Witness ==
  /\ OtaFrameServed /\ ~clientConnected
  /\ \E i \in Effects("notify") : ~effects[i].done /\ effects[i].n1 > 0

C12_WitnessReconnect ==
  /\ ev.kind = "connect" /\ ~pre.clientConnected /\ pre.otaReceived > 0
  /\ Cardinality(Sent) = 1

\* C13: getUpdatePercentage returns floor(received_bytes * 100 / total_size),
\* and 0 when total_size = 0, in every state.
C13_Claim == getUpdatePercentage(Cur) = Percentage(otaReceived, otaFileSize)

\* C14: the device restarts exactly when a DONE frame reached end(true) and
\* end(true) succeeded, which happens only with received_bytes = total_size;
\* the status is then COMPLETED and was set (its callback invoked when there
\* is one) before the restart; ERROR and ABORTED never come with a restart.
C14_Theorem ==
  /\ restarting <=> (Served(DoneFrame) /\ calls = <<EndTrueCall(TRUE)>>)
  /\ restarting <=> Effects("restart") # {}
  /\ restarting =>
        /\ pre.otaInProgress /\ pre.otaReceived = pre.otaFileSize
        /\ otaStatus = "COMPLETED"
        /\ Len(effects) = 2
        /\ effects[1].kind = "status" /\ effects[1].status = "COMPLETED"
        /\ effects[2] = RestartEffect
  /\ (Served(DoneFrame) /\ pre.otaInProgress /\ pre.otaFileSize # 0
         /\ pre.otaReceived = pre.otaFileSize) =>
        calls \in { <<EndTrueCall(ok)>> : ok \in BOOLEAN }

C14_Witness == restarting /\ effects[1].done /\ otaReceived = BigSize

C14_WitnessFailed == Served(DoneFrame) /\ calls = <<EndTrueCall(FALSE)>> /\ otaStatus = "ERROR"

\* C15 as claimed: a command frame is handed to the handler exactly when the
\* frame is non-empty and a handler is set; the session is left as it was
\* and no Flash Writer call is made.
C15_Claim ==
  ev.kind = "command" =>
     /\ Len(effects) = 1
     /\ effects[1].done <=> (RawLength(ev.frame) > 0 /\ effects[1].set)
     /\ SessionUnchanged /\ calls = << >> /\ txOpen = pre.txOpen

\* C15 as amended: a command frame is handed to the handler exactly when its
\* text, the bytes before its first zero byte, is non-empty and a handler is
\* set, in every session state; the session is left as it was and no Flash
\* Writer call is made.
C15_Theorem ==
  ev.kind = "command" =>
     /\ Len(effects) = 1
     /\ effects[1].kind = "command"
     /\ effects[1].frame = c_str(ev.frame)
     /\ effects[1].done <=> (Length(c_str(ev.frame)) > 0 /\ effects[1].set)
     /\ SessionUnchanged /\ calls = << >> /\ txOpen = pre.txOpen
     /\ clientConnected = pre.clientConnected

C15_Witness ==
  /\ ev.kind = "command" /\ effects[1].done
  /\ otaInProgress /\ otaReceived > 0 /\ ~clientConnected

C15_WitnessTerminal == ev.kind = "command" /\ effects[1].done /\ otaStatus = "ERROR"

\* C16: when a frame of an active transfer reaches Flash Writer write (size
\* known, received_bytes < total_size): a result written > 0 adds exactly
\* written to received_bytes and gives one progress report with the new
\* received_bytes and total_size (the callback when one is set, the
\* notification when connected); a result 0 leaves the session Failed
\* ("Write failed"), inactive, with received_bytes as it was.
C16_Theorem ==
  /\ (OtaFrameServed /\ ev.frame \in DataFrames /\ pre.otaInProgress
         /\ pre.otaFileSize > 0 /\ pre.otaReceived < pre.otaFileSize) =>
        CountOp(calls, "write") = 1
  /\ CountOp(calls, "write") > 0 =>
        /\ OtaFrameServed /\ Len(calls) = 1
        /\ pre.otaInProgress /\ pre.otaFileSize > 0 /\ pre.otaReceived < pre.otaFileSize
        /\ calls[1].arg = Length(c_str(ev.frame))
        /\ otaFileSize = pre.otaFileSize
        /\ IF calls[1].ret > 0
           THEN /\ otaReceived = pre.otaReceived + calls[1].ret
                /\ otaInProgress /\ otaStatus = pre.otaStatus
                /\ Len(effects) = 2
                /\ effects[1].kind = "progress" /\ effects[1].done = effects[1].set
                /\ effects[1].n1 = otaReceived /\ effects[1].n2 = otaFileSize
                /\ effects[2] = NotifyEffect("PROGRESS", otaReceived, otaFileSize,
                                             started /\ clientConnected)
           ELSE /\ otaReceived = pre.otaReceived
                /\ ~otaInProgress /\ otaStatus = "ERROR"
                /\ Len(effects) = 1
                /\ effects[1].kind = "status" /\ effects[1].status = "ERROR"
                /\ effects[1].tag = "Write failed"

C16_Witness ==
  /\ OtaFrameServed /\ Len(calls) = 1 /\ calls[1].op = "write"
  /\ calls[1].ret > 0 /\ calls[1].ret < calls[1].arg
  /\ pre.otaReceived > 0
  /\ Len(effects) = 2 /\ effects[1].done /\ effects[2].done

C16_WitnessFailed ==
  /\ OtaFrameServed /\ Len(calls) = 1 /\ calls[1].op = "write" /\ calls[1].ret = 0
  /\ pre.otaReceived > 0

\* C17: a DONE frame served while a transfer is active, size frame received
\* or not, ends the transfer Completed or Failed with exactly one end call
\* and is taken neither as the size nor as payload.
C17_Claim ==
  (Served(DoneFrame) /\ pre.otaInProgress) =>
     /\ otaStatus \in {"COMPLETED", "ERROR"}
     /\ Len(calls) = 1 /\ calls[1].op = "end"
     /\ otaFileSize = pre.otaFileSize

\* C18: within one transfer begin is called at most once and total_size is
\* assigned at most once: only a frame served while total_size = 0 assigns it
\* (with the begin call), the value assigned is not 0, and no later frame of
\* the transfer changes it; a declared size of 0 assigns nothing.
C18_Theorem ==
  /\ xfer.begins <= 1
  /\ CountOp(calls, "begin") > 0 =>
        /\ OtaFrameServed /\ pre.otaInProgress /\ pre.otaFileSize = 0
        /\ Len(calls) = 1 /\ xfer.begins = 1
        /\ otaFileSize = calls[1].arg /\ otaFileSize # 0
  /\ (OtaFrameServed /\ pre.otaInProgress /\ otaFileSize # pre.otaFileSize) =>
        \/ CountOp(calls, "begin") = 1
        \/ Served(AbortFrame) /\ otaFileSize = 0 /\ ~otaInProgress
  /\ (OtaFrameServed /\ pre.otaInProgress /\ pre.otaFileSize # 0 /\ RawLength(ev.frame) = 4) =>
        otaFileSize = pre.otaFileSize /\ CountOp(calls, "begin") = 0

C18_Witness ==
  /\ Served(SizeFrame(BigSize)) /\ pre.otaInProgress /\ pre.otaFileSize # 0
  /\ xfer.begins = 1 /\ CountOp(calls, "write") = 1

C18_WitnessZero ==
  /\ Served(SizeFrame(0)) /\ pre.otaInProgress /\ pre.otaFileSize = 0
  /\ otaInProgress /\ xfer.begins = 0

\* C19: the transfer-active flag is set exactly when the status is RECEIVING.
C19_Claim == otaInProgress <=> otaStatus = "RECEIVING"

\* C20: write and end(true) are only called on the open transaction of the
\* current transfer: its one begin succeeded and no end has been called yet;
\* and total_size = 0 implies received_bytes = 0.
C20_Theorem ==
  /\ \A i \in 1..Len(calls) :
        calls[i].op = "write" =>
           /\ pre.txOpen /\ xfer.begins = 1 /\ xfer.beginsOk = 1
           /\ xfer.endTrue = 0 /\ xfer.endFalse = 0
  /\ \A i \in 1..Len(calls) :
        (calls[i].op = "end" /\ calls[i].arg = 1) =>
           /\ pre.txOpen /\ xfer.begins = 1 /\ xfer.beginsOk = 1
           /\ xfer.endTrue = 1 /\ xfer.endFalse = 0
  /\ otaFileSize = 0 => otaReceived = 0

C20_Witness ==
  /\ Served(DoneFrame) /\ calls = <<EndTrueCall(FALSE)>>
  /\ pre.txOpen /\ xfer.writes > 0

====
